---- MODULE Spec2Model ----
(***************************************************************************)
(* State machine of the two kana quiz games of kana-dojo:                  *)
(*   PickGame          src/features/Resources/components/                  *)
(*                     ResourceDetailModal.tsx, lines 382-791              *)
(*   WordBuildingGame  src/features/Kana/components/Game/                  *)
(*                     WordBuildingGame.tsx, lines 144-461                 *)
(* together with the three collaborators they call: the adaptive selector, *)
(* the progressive-difficulty hook and the smart-reverse-mode hook.  The   *)
(* collaborators are modelled by their contracts, sections 4.1-4.3 of the  *)
(* specification.                                                          *)
(*                                                                         *)
(* One behaviour is the life of ONE mounted game component.  A step is one *)
(* user event: the event handler, the re-render it causes and the effects  *)
(* of that render, taken together (React runs them before the next event). *)
(***************************************************************************)
EXTENDS Integers, Sequences, FiniteSets, Bags, TLC

VARIABLES
  game,                     \* which component is mounted: "pick" or "word"
  kanaGroupIndices,         \* useKanaStore: the selected kana groups
  isReverse,                \* useSmartReverseMode: isReverse
  consecutiveCorrect,       \* useSmartReverseMode: consecutiveCorrect
  optionCount,              \* useProgressiveDifficulty: optionCount
  correctStreak,            \* useProgressiveDifficulty: correctStreak
  wrongCount,               \* useProgressiveDifficulty: wrongCount
  score,                    \* useStatsStore: score
  calls,                    \* collaborator calls made by the last step, in order
  callbacks,                \* WordBuildingGame: onCorrect / onWrong invocations of the last step
  correctKanaChar,          \* PickGame state
  correctRomajiCharReverse, \* PickGame state
  correctKanaCharReverse,   \* PickGame: value computed by the last render
  shuffledVariants,         \* PickGame state (a bag: the order is display only)
  wrongSelectedAnswers,     \* PickGame state (read with includes() only)
  externalIsReverse,        \* WordBuildingGame prop isReverse: <<>> or <<b>>
  wordLength,               \* WordBuildingGame prop wordLength
  wordData,                 \* WordBuildingGame state
  placedTiles,              \* WordBuildingGame state
  isChecking,               \* WordBuildingGame state
  bottomBarState,           \* WordBuildingGame state
  weightStore,              \* adaptive selector: the CharacterWeight entries
  event,                    \* the user event the last step handled
  sinceFresh,               \* history: the answers since the last fresh difficulty state
  correctRun,               \* history: the correct answers in a row up to now
  trail                     \* history: the last two answers, with the counts before each

hookVars == <<isReverse, consecutiveCorrect>>
difficultyVars == <<optionCount, correctStreak, wrongCount>>
pickVars == <<correctKanaChar, correctRomajiCharReverse, correctKanaCharReverse,
              shuffledVariants, wrongSelectedAnswers>>
wordVars == <<wordData, placedTiles, isChecking, bottomBarState>>
propVars == <<game, kanaGroupIndices, externalIsReverse, wordLength>>
historyVars == <<sinceFresh, correctRun, trail>>
vars == <<propVars, hookVars, difficultyVars, score, calls, callbacks, pickVars, wordVars,
          historyVars, weightStore, event>>

(***************************************************************************)
(* Bounds of the model.                                                    *)
(***************************************************************************)
\* longest run of correct answers explored in the difficulty specification
MaxStreak == 20
\* largest score explored in the difficulty specification
MaxScore == 20
\* longest run of correct answers explored when both games are checked
MaxRun == 3
\* largest score explored when both games are checked
MaxPoints == 4

(***************************************************************************)
(* JavaScript values and helpers.                                          *)
(***************************************************************************)
\* the value of a missing property
Undefined == "undefined"
\* the empty string PickGame uses as target when nothing is selected
EmptyChar == ""

Min(a, b) == IF a < b THEN a ELSE b
Max(a, b) == IF a > b THEN a ELSE b

Range(s) == {s[i] : i \in 1..Len(s)}

RECURSIVE Flat(_)
\* Array.prototype.flat() on an array of arrays
Flat(ss) == IF ss = <<>> THEN <<>> ELSE Head(ss) \o Flat(Tail(ss))

\* Array.prototype.reverse()
Reverse(s) == [i \in 1..Len(s) |-> s[Len(s) + 1 - i]]

RECURSIVE ObjectFromEntries(_)
\* Object.fromEntries: an object is the sequence of its <<key, value>> entries
\* in insertion order; a repeated key keeps its place and takes the last value
ObjectFromEntries(entries) ==
  IF entries = <<>> THEN <<>>
  ELSE LET before == ObjectFromEntries(SubSeq(entries, 1, Len(entries) - 1))
           e == entries[Len(entries)]
       IN IF \E i \in 1..Len(before) : before[i][1] = e[1]
          THEN [i \in 1..Len(before) |->
                  IF before[i][1] = e[1] THEN e ELSE before[i]]
          ELSE Append(before, e)

\* obj[key]
ObjectGet(obj, key) ==
  IF \E i \in 1..Len(obj) : obj[i][1] = key
  THEN obj[CHOOSE i \in 1..Len(obj) : obj[i][1] = key][2]
  ELSE Undefined

\* const { [key]: _, ...rest } = obj
ObjectWithout(obj, key) == SelectSeq(obj, LAMBDA e : e[1] # key)

\* Object.values(obj)
ObjectValues(obj) == [i \in 1..Len(obj) |-> obj[i][2]]

\* keys.map((key, i) => [key, values[i]])
Zip(keys, values) == [i \in 1..Len(keys) |-> <<keys[i], values[i]>>]

\* the elements of s at the positions S, as a bag
BagOfPositions(s, S) ==
  [x \in {s[i] : i \in S} |-> Cardinality({i \in S : s[i] = x})]

\* values.sort(() => random.real(0, 1) - 0.5).slice(0, n): the first n elements
\* of an arbitrary permutation, kept as a bag
ShuffleSlice(values, n) ==
  {BagOfPositions(values, S) :
     S \in {T \in SUBSET (1..Len(values)) : Cardinality(T) = Min(n, Len(values))}}

(***************************************************************************)
(* The character pool: the kana table and the store's group selection.     *)
(***************************************************************************)
\* a small kana table in the shape of features/Kana/data/kana: groups of kana
\* with their romanisation; two kana (ZI, DI) share the romanisation "ji"
kana ==
  << [kana |-> <<"A", "I">>,      romanji |-> <<"a", "i">>],
     [kana |-> <<"ZI">>,          romanji |-> <<"ji">>],
     [kana |-> <<"DI">>,          romanji |-> <<"ji">>],
     [kana |-> <<"U", "E", "O">>, romanji |-> <<"u", "e", "o">>] >>

\* the group selections the model starts from
GroupSelections == {<<>>, <<1>>, <<1, 2>>, <<2, 3>>, <<2, 4>>, <<1, 2, 3>>, <<1, 4>>}

\* the values both components derive from kanaGroupIndices with useMemo
MemoOf(groups) ==
  LET kanaChars == Flat([n \in 1..Len(groups) |-> kana[groups[n]].kana])
      romajiChars == Flat([n \in 1..Len(groups) |-> kana[groups[n]].romanji])
      pairs1 == ObjectFromEntries(Zip(romajiChars, kanaChars))
      pairs2 == ObjectFromEntries(Reverse(Zip(romajiChars, kanaChars)))
  IN [selectedKana |-> kanaChars,
      selectedRomaji |-> romajiChars,
      selectedPairs |-> ObjectFromEntries(Zip(kanaChars, romajiChars)),
      selectedPairs1 |-> pairs1,
      selectedPairs2 |-> pairs2,
      reversedPairs1 |->
        ObjectFromEntries([i \in 1..Len(pairs1) |-> <<pairs1[i][2], pairs1[i][1]>>]),
      reversedPairs2 |->
        ObjectFromEntries([i \in 1..Len(pairs2) |-> <<pairs2[i][2], pairs2[i][1]>>]),
      kanaToRomaji |-> ObjectFromEntries(Zip(kanaChars, romajiChars)),
      romajiToKana |-> ObjectFromEntries(Zip(romajiChars, kanaChars))]

\* the memoised values, by group selection
Memo == [groups \in GroupSelections |-> MemoOf(groups)]

\* kanaGroupIndices.map(i => kana[i].kana).flat()
selectedKana == Memo[kanaGroupIndices].selectedKana
\* kanaGroupIndices.map(i => kana[i].romanji).flat()
selectedRomaji == Memo[kanaGroupIndices].selectedRomaji

(***************************************************************************)
(* AdaptiveSelector (specification 4.1).  Every weight is positive, so a   *)
(* weighted draw can return every eligible character.                      *)
(***************************************************************************)
\* the failure of a selection from an empty pool, in place of a character
InvalidArgument == "InvalidArgument"

\* faulty selectWeightedCharacter: the excluded character can be drawn
selectWeightedCharacterAny(chars, exclude) ==
  IF chars = <<>> THEN {InvalidArgument} ELSE Range(chars)

\* the characters selectWeightedCharacter(pool, exclude) can return; an empty
\* pool is an InvalidArgument error
selectWeightedCharacter(chars, exclude) ==
  IF chars = <<>> THEN {InvalidArgument}
  ELSE IF Range(chars) \ {exclude} # {} THEN Range(chars) \ {exclude}
  ELSE Range(chars)

\* the weights are counted in halves: the default weight 1.0 is 2
DefaultWeight == 2
\* the small positive floor of a weight (0.5)
FloorWeight == 1
\* the ceiling of a weight (4.0)
CeilingWeight == 8

\* every character of the kana table, kana or romanisation
Characters ==
  UNION {Range(kana[g].kana) \cup Range(kana[g].romanji) : g \in 1..Len(kana)}

\* the CharacterWeight entries at the start of a session: an entry is created
\* on first reference with weight 1.0 and seen = false, so every character
\* has these values until an operation changes them
FreshEntries == [c \in Characters |-> [weight |-> DefaultWeight, seen |-> FALSE]]

\* the selector state: its entries, and whether the specification observes
\* them (a specification that does not observe them starts with
\* tracked = FALSE and the entries stay as they are)
FreshStore == [tracked |-> TRUE, entries |-> FreshEntries]
UntrackedStore == [tracked |-> FALSE, entries |-> FreshEntries]

\* markCharacterSeen(character)
markCharacterSeen(entries, char) == [entries EXCEPT ![char].seen = TRUE]

\* faulty updateCharacterWeight: the result is not clamped
updateCharacterWeightUnclamped(entries, char, wasCorrect) ==
  [entries EXCEPT ![char].weight = IF wasCorrect THEN @ \div 2 ELSE @ * 2]

\* updateCharacterWeight(character, wasCorrect): a correct answer halves the
\* weight, a wrong answer doubles it, clamped to [FloorWeight, CeilingWeight]
updateCharacterWeight(entries, char, wasCorrect) ==
  [entries EXCEPT ![char].weight =
     IF wasCorrect THEN Max(FloorWeight, @ \div 2) ELSE Min(CeilingWeight, @ * 2)]

CallSelect(chars, exclude) == <<"selectWeightedCharacter", chars, exclude>>
CallMarkSeen(char) == <<"markCharacterSeen", char>>
CallUpdateWeight(char, wasCorrect) == <<"updateCharacterWeight", char, wasCorrect>>
CallRecordCorrect == <<"recordCorrect">>
CallRecordWrong == <<"recordWrong">>
CallDecideNextMode == <<"decideNextMode">>
CallRecordWrongAnswer == <<"recordWrongAnswer">>
\* externalOnCorrect?.(chars) and externalOnWrong?.()
CallOnCorrect(chars) == <<"onCorrect", chars>>
CallOnWrong == <<"onWrong">>

\* the entries after one logged call: selectWeightedCharacter and the calls
\* to the other collaborators leave them as they are
ApplyCall(entries, call) ==
  IF call[1] = "markCharacterSeen" THEN markCharacterSeen(entries, call[2])
  ELSE IF call[1] = "updateCharacterWeight"
  THEN updateCharacterWeight(entries, call[2], call[3])
  ELSE entries

RECURSIVE ApplyCalls(_, _)
\* the entries after the logged calls, in the order they were made
ApplyCalls(entries, made) ==
  IF made = <<>> THEN entries
  ELSE ApplyCalls(ApplyCall(entries, Head(made)), Tail(made))

\* the selector state after a step: the step's calls have acted on it
SelectorStep ==
  weightStore' = IF weightStore.tracked
                 THEN [weightStore EXCEPT !.entries = ApplyCalls(@, calls')]
                 ELSE weightStore

\* the selector state after a mount, in a specification that observes it
StoreTracked == weightStore = [FreshStore EXCEPT !.entries = ApplyCalls(@, calls)]
\* the selector state in a specification that does not observe it
StoreUntracked == weightStore = UntrackedStore

(***************************************************************************)
(* ProgressiveDifficulty (specification 4.2), with PickGame's options.     *)
(***************************************************************************)
\* faulty options: the maximum is one too high
PickDifficultyConfigMaxSeven ==
  [minOptions |-> 3, maxOptions |-> 7, streakPerLevel |-> 5, wrongsToDecrease |-> 2]

\* faulty options: a level is gained after four correct answers
PickDifficultyConfigStreakFour ==
  [minOptions |-> 3, maxOptions |-> 6, streakPerLevel |-> 4, wrongsToDecrease |-> 2]

\* faulty options: a level is lost after three wrong answers
PickDifficultyConfigThreeWrongs ==
  [minOptions |-> 3, maxOptions |-> 6, streakPerLevel |-> 5, wrongsToDecrease |-> 3]

\* faulty options: the maximum is one too low
PickDifficultyConfigMaxFive ==
  [minOptions |-> 3, maxOptions |-> 5, streakPerLevel |-> 5, wrongsToDecrease |-> 2]

\* the options PickGame passes to useProgressiveDifficulty
PickDifficultyConfig ==
  [minOptions |-> 3, maxOptions |-> 6, streakPerLevel |-> 5, wrongsToDecrease |-> 2]

\* recordCorrect()
recordCorrect(cfg) ==
  /\ correctStreak' = correctStreak + 1
  /\ wrongCount' = 0
  /\ optionCount' = IF (correctStreak + 1) % cfg.streakPerLevel = 0
                    THEN Min(optionCount + 1, cfg.maxOptions)
                    ELSE optionCount

\* recordWrong()
recordWrong(cfg) ==
  /\ correctStreak' = 0
  /\ IF wrongCount + 1 >= cfg.wrongsToDecrease
     THEN /\ optionCount' = Max(optionCount - 1, cfg.minOptions)
          /\ wrongCount' = 0
     ELSE /\ optionCount' = optionCount
          /\ wrongCount' = wrongCount + 1

(***************************************************************************)
(* ReverseModeController (specification 4.3).                              *)
(***************************************************************************)
\* decideNextMode(): counts the answer; the policy may flip the orientation
decideNextMode ==
  /\ consecutiveCorrect' = consecutiveCorrect + 1
  /\ isReverse' \in BOOLEAN

\* recordWrongAnswer(): resets the streak, keeps the orientation
recordWrongAnswer ==
  /\ consecutiveCorrect' = 0
  /\ isReverse' = isReverse

(***************************************************************************)
(* PickGame.                                                               *)
(***************************************************************************)
\* for normal pick mode: kana -> romaji
selectedPairs == Memo[kanaGroupIndices].selectedPairs
\* for reverse pick mode: romaji -> kana, the last kana of a romaji wins
selectedPairs1 == Memo[kanaGroupIndices].selectedPairs1
\* for reverse pick mode: romaji -> kana, the first kana of a romaji wins
selectedPairs2 == Memo[kanaGroupIndices].selectedPairs2
\* Object.entries(selectedPairs1).map(([key, value]) => [value, key])
reversedPairs1 == Memo[kanaGroupIndices].reversedPairs1
\* Object.entries(selectedPairs2).map(([key, value]) => [value, key])
reversedPairs2 == Memo[kanaGroupIndices].reversedPairs2

\* const correctRomajiChar = selectedPairs[correctKanaChar]
correctRomajiChar == ObjectGet(selectedPairs, correctKanaChar)

\* the values random.bool() ? selectedPairs1[r] : selectedPairs2[r] can take
RenderKanaCharReverse(r) == {ObjectGet(selectedPairs1, r), ObjectGet(selectedPairs2, r)}

\* faulty initialiser: the empty selection is not checked for
InitialTargetUnguarded(chars) == selectWeightedCharacter(chars, Undefined)

\* the initial value of correctKanaChar / correctRomajiCharReverse
InitialTarget(chars) ==
  IF Len(chars) = 0 THEN {EmptyChar} ELSE selectWeightedCharacter(chars, Undefined)

\* getIncorrectOptions(count), as the bags it can return
getIncorrectOptions(count, rev, kanaChar, romajiCharReverse) ==
  LET incorrectCount == count - 1
  IN IF ~rev
     THEN ShuffleSlice(ObjectValues(ObjectWithout(selectedPairs, kanaChar)),
                       incorrectCount)
     ELSE ShuffleSlice(ObjectValues(ObjectWithout(selectedPairs1, romajiCharReverse)),
                       incorrectCount)
          \cup
          ShuffleSlice(ObjectValues(ObjectWithout(selectedPairs2, romajiCharReverse)),
                       incorrectCount)

\* the arrays the shuffledVariants initialiser and effect can build
BuildVariants(count, rev, kanaChar, romajiCharReverse, kanaCharReverse) ==
  {SetToBag({IF rev THEN kanaCharReverse ELSE ObjectGet(selectedPairs, kanaChar)}) (+) b :
     b \in getIncorrectOptions(count, rev, kanaChar, romajiCharReverse)}

\* faulty handleCorrectAnswer: the character's weight is not updated
handleCorrectAnswerNoWeight(correctChar, after) ==
  /\ score' = score + 1
  /\ wrongSelectedAnswers' = {}
  /\ decideNextMode
  /\ recordCorrect(PickDifficultyConfig)
  /\ calls' = <<CallDecideNextMode, CallRecordCorrect>> \o after

\* faulty handleCorrectAnswer: the difficulty is not told of the answer
handleCorrectAnswerNoDifficulty(correctChar, after) ==
  /\ score' = score + 1
  /\ wrongSelectedAnswers' = {}
  /\ decideNextMode
  /\ UNCHANGED difficultyVars
  /\ calls' = <<CallUpdateWeight(correctChar, TRUE), CallDecideNextMode>> \o after

\* faulty handleCorrectAnswer: the wrong selections are kept
handleCorrectAnswerKeepingWrong(correctChar, after) ==
  /\ score' = score + 1
  /\ UNCHANGED wrongSelectedAnswers
  /\ decideNextMode
  /\ recordCorrect(PickDifficultyConfig)
  /\ calls' = <<CallUpdateWeight(correctChar, TRUE), CallDecideNextMode,
                CallRecordCorrect>> \o after

\* handleCorrectAnswer(correctChar); `after` are the calls handleOptionClick
\* makes once handleCorrectAnswer has returned
handleCorrectAnswer(correctChar, after) ==
  /\ score' = score + 1
  /\ wrongSelectedAnswers' = {}
  /\ decideNextMode
  /\ recordCorrect(PickDifficultyConfig)
  /\ calls' = <<CallUpdateWeight(correctChar, TRUE), CallDecideNextMode,
                CallRecordCorrect>> \o after

\* faulty handleWrongAnswer: the orientation is decided anew
handleWrongAnswerDeciding(selectedChar) ==
  LET currentChar == IF isReverse THEN correctRomajiCharReverse ELSE correctKanaChar
  IN /\ wrongSelectedAnswers' = wrongSelectedAnswers \cup {selectedChar}
     /\ score' = IF score - 1 < 0 THEN 0 ELSE score - 1
     /\ decideNextMode
     /\ recordWrong(PickDifficultyConfig)
     /\ calls' = <<CallUpdateWeight(currentChar, FALSE), CallDecideNextMode,
                   CallRecordWrong>>

\* faulty handleWrongAnswer: the difficulty is not told of the answer
handleWrongAnswerNoDifficulty(selectedChar) ==
  LET currentChar == IF isReverse THEN correctRomajiCharReverse ELSE correctKanaChar
  IN /\ wrongSelectedAnswers' = wrongSelectedAnswers \cup {selectedChar}
     /\ score' = IF score - 1 < 0 THEN 0 ELSE score - 1
     /\ recordWrongAnswer
     /\ UNCHANGED difficultyVars
     /\ calls' = <<CallUpdateWeight(currentChar, FALSE), CallRecordWrongAnswer>>

\* faulty handleWrongAnswer: the score is lowered without a floor
handleWrongAnswerUnfloored(selectedChar) ==
  LET currentChar == IF isReverse THEN correctRomajiCharReverse ELSE correctKanaChar
  IN /\ wrongSelectedAnswers' = wrongSelectedAnswers \cup {selectedChar}
     /\ score' = score - 1
     /\ recordWrongAnswer
     /\ recordWrong(PickDifficultyConfig)
     /\ calls' = <<CallUpdateWeight(currentChar, FALSE), CallRecordWrongAnswer,
                   CallRecordWrong>>

\* handleWrongAnswer(selectedChar)
handleWrongAnswer(selectedChar) ==
  LET currentChar == IF isReverse THEN correctRomajiCharReverse ELSE correctKanaChar
  IN /\ wrongSelectedAnswers' = wrongSelectedAnswers \cup {selectedChar}
     /\ score' = IF score - 1 < 0 THEN 0 ELSE score - 1
     /\ recordWrongAnswer
     /\ recordWrong(PickDifficultyConfig)
     /\ calls' = <<CallUpdateWeight(currentChar, FALSE), CallRecordWrongAnswer,
                   CallRecordWrong>>

\* the render after a handler and its effect: correctKanaCharReverse is drawn
\* again by every render, and the shuffledVariants effect runs when one of its
\* dependencies differs from the previous render
PickRenderAndEffects ==
  /\ correctKanaCharReverse' \in RenderKanaCharReverse(correctRomajiCharReverse')
  /\ LET depsChanged ==
           \/ isReverse' # isReverse
           \/ correctRomajiCharReverse' # correctRomajiCharReverse
           \/ correctKanaChar' # correctKanaChar
           \/ correctKanaCharReverse' # correctKanaCharReverse
           \/ optionCount' # optionCount
         redrawn == Cardinality(RenderKanaCharReverse(correctRomajiCharReverse')) > 1
         built == BuildVariants(optionCount', isReverse', correctKanaChar',
                                correctRomajiCharReverse', correctKanaCharReverse')
     IN shuffledVariants' \in
          IF depsChanged THEN built
          ELSE IF redrawn THEN built \cup {shuffledVariants}
          ELSE {shuffledVariants}

\* selectedChar answers the question shown
PickIsCorrect(selectedChar) ==
  IF ~isReverse
  THEN selectedChar = correctRomajiChar
  ELSE correctRomajiCharReverse \in {ObjectGet(reversedPairs1, selectedChar),
                                      ObjectGet(reversedPairs2, selectedChar)}

\* handleOptionClick(selectedChar)
handleOptionClick(selectedChar) ==
  /\ \/ /\ ~isReverse
        /\ selectedChar = correctRomajiChar
        /\ \E newKana \in selectWeightedCharacter(selectedKana, correctKanaChar) :
             /\ handleCorrectAnswer(correctKanaChar,
                  <<CallSelect(selectedKana, correctKanaChar), CallMarkSeen(newKana)>>)
             /\ correctKanaChar' = newKana
        /\ UNCHANGED correctRomajiCharReverse
     \/ /\ ~isReverse
        /\ selectedChar # correctRomajiChar
        /\ handleWrongAnswer(selectedChar)
        /\ UNCHANGED <<correctKanaChar, correctRomajiCharReverse>>
     \/ /\ isReverse
        /\ PickIsCorrect(selectedChar)
        /\ \E newRomaji \in selectWeightedCharacter(selectedRomaji, correctRomajiCharReverse) :
             /\ handleCorrectAnswer(correctRomajiCharReverse,
                  <<CallSelect(selectedRomaji, correctRomajiCharReverse),
                    CallMarkSeen(newRomaji)>>)
             /\ correctRomajiCharReverse' = newRomaji
        /\ UNCHANGED correctKanaChar
     \/ /\ isReverse
        /\ ~PickIsCorrect(selectedChar)
        /\ handleWrongAnswer(selectedChar)
        /\ UNCHANGED <<correctKanaChar, correctRomajiCharReverse>>
  /\ PickRenderAndEffects
  /\ callbacks' = <<>>
  /\ UNCHANGED <<propVars, wordVars>>

\* the option buttons that are rendered and not disabled
PickClickable ==
  IF Len(selectedKana) = 0 THEN {} ELSE BagToSet(shuffledVariants) \ wrongSelectedAnswers

\* the state of a component that is not mounted
NoWordGame ==
  /\ externalIsReverse = <<>>
  /\ wordLength = 3
  /\ wordData = [wordChars |-> <<>>, answerChars |-> <<>>, allTiles |-> EmptyBag]
  /\ placedTiles = <<>>
  /\ isChecking = FALSE
  /\ bottomBarState = "check"

(***************************************************************************)
(* History of the answers given to PickGame.  The history variables are    *)
(* written by no handler and read by none; they record which answers led   *)
(* to the current difficulty state.                                        *)
(***************************************************************************)
\* the difficulty state
Difficulty == [optionCount |-> optionCount, correctStreak |-> correctStreak,
               wrongCount |-> wrongCount]

\* the difficulty state useProgressiveDifficulty starts in
FreshDifficulty(cfg) ==
  [optionCount |-> cfg.minOptions, correctStreak |-> 0, wrongCount |-> 0]

\* sinceFresh when the answers given since the difficulty state was last
\* fresh are not of the form "some correct answers, then some wrong answers"
OffPattern == [corrects |-> -1, wrongs |-> -1]

\* no answer was given yet
NoAnswers == [corrects |-> 0, wrongs |-> 0]

\* the history after an answer that was graded `correct`; an answer given in a
\* fresh difficulty state starts the pattern again
RecordAnswer(correct) ==
  /\ LET base == IF Difficulty = FreshDifficulty(PickDifficultyConfig)
                 THEN NoAnswers ELSE sinceFresh
     IN sinceFresh' =
          IF base = OffPattern THEN OffPattern
          ELSE IF correct
          THEN IF base.wrongs = 0
               THEN [base EXCEPT !.corrects = @ + 1]
               ELSE OffPattern
          ELSE [base EXCEPT !.wrongs = @ + 1]
  /\ correctRun' = IF correct THEN correctRun + 1 ELSE 0
  /\ trail' = (IF trail = <<>> THEN <<>> ELSE <<trail[Len(trail)]>>)
              \o <<[correct |-> correct, optionCount |-> optionCount,
                     wrongCount |-> wrongCount]>>

\* PickGame after it has mounted with the group selection `groups`
PickMounted(groups) ==
  /\ game = "pick"
  /\ kanaGroupIndices = groups
  /\ isReverse = FALSE
  /\ consecutiveCorrect = 0
  /\ optionCount = PickDifficultyConfig.minOptions
  /\ correctStreak = 0
  /\ wrongCount = 0
  /\ score = 0
  /\ correctKanaChar \in InitialTarget(selectedKana)
  /\ correctRomajiCharReverse \in InitialTarget(selectedRomaji)
  /\ correctKanaCharReverse \in RenderKanaCharReverse(correctRomajiCharReverse)
  /\ shuffledVariants \in
       BuildVariants(optionCount, isReverse, correctKanaChar,
                     correctRomajiCharReverse, correctKanaCharReverse)
  /\ wrongSelectedAnswers = {}
  /\ calls = IF Len(selectedKana) = 0 THEN <<>>
             ELSE <<CallSelect(selectedKana, Undefined), CallMarkSeen(correctKanaChar),
                    CallSelect(selectedRomaji, Undefined),
                    CallMarkSeen(correctRomajiCharReverse)>>
  /\ NoWordGame
  /\ sinceFresh = NoAnswers
  /\ correctRun = 0
  /\ trail = <<>>
  /\ callbacks = <<>>
  /\ event = "mount"

\* the user clicks an option (or presses its key) that answers the question
PickAnswerCorrect(maxStreak, maxScore) ==
  /\ game = "pick"
  /\ correctStreak < maxStreak
  /\ score < maxScore
  /\ \E selectedChar \in PickClickable :
       /\ PickIsCorrect(selectedChar)
       /\ handleOptionClick(selectedChar)
  /\ RecordAnswer(TRUE)
  /\ SelectorStep
  /\ event' = "option"

\* the user clicks an option (or presses its key) that does not answer it
PickAnswerWrong ==
  /\ game = "pick"
  /\ \E selectedChar \in PickClickable :
       /\ ~PickIsCorrect(selectedChar)
       /\ handleOptionClick(selectedChar)
  /\ RecordAnswer(FALSE)
  /\ SelectorStep
  /\ event' = "option"

(***************************************************************************)
(* SpecPick: PickGame alone, with runs of correct answers long enough to   *)
(* take the option count from its minimum to its maximum and beyond.       *)
(***************************************************************************)
\* the group selections SpecPick starts from
PickSelections == {<<1, 2>>}

InitPick == StoreUntracked /\ \E groups \in PickSelections : PickMounted(groups)
NextPick ==
  \/ PickAnswerCorrect(MaxStreak, MaxScore)
  \/ PickAnswerWrong
SpecPick == InitPick /\ [][NextPick]_vars

(***************************************************************************)
(* SpecLevels: PickGame alone with a pool of four characters, so that more *)
(* than two wrong answers can follow one another, and runs of correct      *)
(* answers long enough to reach the maximum option count.                  *)
(***************************************************************************)
\* longest run of correct answers and largest score explored in SpecLevels
MaxLevelStreak == 15
MaxLevelScore == 15

\* the group selections SpecLevels starts from
LevelSelections == {<<2, 4>>}

InitLevels == StoreUntracked /\ \E groups \in LevelSelections : PickMounted(groups)
NextLevels ==
  \/ PickAnswerCorrect(MaxLevelStreak, MaxLevelScore)
  \/ PickAnswerWrong
SpecLevels == InitLevels /\ [][NextLevels]_vars

(***************************************************************************)
(* SpecScenario: PickGame with a pool of five characters and a user who    *)
(* answers correctly until a full streak has raised the level and from     *)
(* then on gives wrong answers only.                                       *)
(***************************************************************************)
\* the longest run of correct answers of the scenario
MaxScenarioRun == 5

InitScenario == StoreUntracked /\ PickMounted(<<1, 4>>)
NextScenario ==
  \/ /\ sinceFresh.wrongs = 0
     /\ PickAnswerCorrect(MaxScenarioRun, MaxScenarioRun)
  \/ /\ \/ sinceFresh.corrects = PickDifficultyConfig.streakPerLevel
        \/ sinceFresh.wrongs > 0
     /\ PickAnswerWrong
SpecScenario == InitScenario /\ [][NextScenario]_vars

(***************************************************************************)
(* WordBuildingGame.                                                       *)
(***************************************************************************)
\* kanaChars.forEach((k, i) => { k2r[k] = romajiChars[i]; ... })
kanaToRomaji == Memo[kanaGroupIndices].kanaToRomaji
\* kanaChars.forEach((k, i) => { ...; r2k[romajiChars[i]] = k })
romajiToKana == Memo[kanaGroupIndices].romajiToKana

\* faulty resolution: the isReverse prop is ignored
WordIsReverseInternal(internalIsReverse) == internalIsReverse

\* const isReverse = externalIsReverse ?? internalIsReverse
WordIsReverse(internalIsReverse) ==
  IF externalIsReverse = <<>> THEN internalIsReverse ELSE externalIsReverse[1]

RECURSIVE WordCharsFromUnmarked(_, _, _, _)
\* faulty first loop of generateWord: the characters drawn are not marked seen
WordCharsFromUnmarked(sourceChars, wordChars, made, remaining) ==
  LET available == SelectSeq(sourceChars, LAMBDA c : c \notin Range(wordChars))
  IN IF remaining = 0 \/ Len(available) = 0
     THEN {[wordChars |-> wordChars, calls |-> made]}
     ELSE UNION {WordCharsFromUnmarked(sourceChars, Append(wordChars, selected),
                                       made \o <<CallSelect(available, Undefined)>>,
                                       remaining - 1) :
                   selected \in selectWeightedCharacter(available, Undefined)}

RECURSIVE WordCharsFrom(_, _, _, _)
\* the first loop of generateWord: the words it can draw, each with the calls
\* made to the adaptive selector while drawing it
WordCharsFrom(sourceChars, wordChars, made, remaining) ==
  LET available == SelectSeq(sourceChars, LAMBDA c : c \notin Range(wordChars))
  IN IF remaining = 0 \/ Len(available) = 0
     THEN {[wordChars |-> wordChars, calls |-> made]}
     ELSE UNION {WordCharsFrom(sourceChars, Append(wordChars, selected),
                               made \o <<CallSelect(available, Undefined),
                                         CallMarkSeen(selected)>>,
                               remaining - 1) :
                   selected \in selectWeightedCharacter(available, Undefined)}

RECURSIVE DistractorsFrom(_, _, _, _)
\* the second loop of generateWord: the distractor lists it can draw
DistractorsFrom(distractorSource, answerChars, distractors, remaining) ==
  LET available == SelectSeq(distractorSource,
                             LAMBDA c : c \notin Range(answerChars)
                                        /\ c \notin Range(distractors))
  IN IF remaining <= 0 \/ Len(available) = 0
     THEN {distractors}
     ELSE UNION {DistractorsFrom(distractorSource, answerChars,
                                 Append(distractors, selected), remaining - 1) :
                   selected \in Range(available)}

\* the word building an empty pool gives
EmptyWord == [wordChars |-> <<>>, answerChars |-> <<>>, allTiles |-> EmptyBag]

\* generateWord(): the results it can return for the orientation rev, each
\* with the selector calls made; allTiles is shuffled and kept as a bag
generateWord(rev) ==
  LET sourceChars == IF rev THEN selectedRomaji ELSE selectedKana
      distractorSource == IF rev THEN selectedKana ELSE selectedRomaji
      distractorCount == Min(3, Len(sourceChars) - wordLength)
      answersOf(wordChars) ==
        [i \in 1..Len(wordChars) |->
           IF rev THEN ObjectGet(romajiToKana, wordChars[i])
                  ELSE ObjectGet(kanaToRomaji, wordChars[i])]
  IN IF Len(sourceChars) < wordLength
     THEN {[wordData |-> EmptyWord, calls |-> <<>>]}
     ELSE UNION
       {{[wordData |->
            [wordChars |-> w.wordChars,
             answerChars |-> answersOf(w.wordChars),
             allTiles |-> BagOfPositions(answersOf(w.wordChars) \o d,
                                         1..(Len(w.wordChars) + Len(d)))],
          calls |-> w.calls] :
           d \in DistractorsFrom(distractorSource, answersOf(w.wordChars), <<>>,
                                 distractorCount)} :
          w \in WordCharsFrom(sourceChars, <<>>, <<>>, wordLength)}

\* resetGame(), run in a render whose orientation is rev; `made` are the calls
\* the step has made before it
resetGame(rev, made) ==
  \E g \in generateWord(rev) :
    /\ wordData' = g.wordData
    /\ placedTiles' = <<>>
    /\ isChecking' = FALSE
    /\ bottomBarState' = "check"
    /\ calls' = made \o g.calls

\* the calls wordData.wordChars.forEach(char => updateCharacterWeight(char, ok)) makes
WordWeightCalls(wasCorrect) ==
  [i \in 1..Len(wordData.wordChars) |-> CallUpdateWeight(wordData.wordChars[i], wasCorrect)]

\* isCorrect for the placement `placed`
IsCorrectPlacement(placed) ==
  /\ Len(placed) = Len(wordData.answerChars)
  /\ \A i \in 1..Len(placed) : placed[i] = wordData.answerChars[i]

\* the placed tiles spell the answer
WordIsCorrect ==
  /\ Len(placedTiles) = Len(wordData.answerChars)
  /\ \A i \in 1..Len(placedTiles) : placedTiles[i] = wordData.answerChars[i]

\* handleCheck(), followed by the render and by the effect that calls
\* resetGame() when isReverse has changed
handleCheck ==
  /\ \/ /\ Len(placedTiles) = 0
        /\ calls' = <<>>
        /\ callbacks' = <<>>
        /\ UNCHANGED <<score, hookVars, wordVars>>
     \/ /\ Len(placedTiles) # 0
        /\ WordIsCorrect
        /\ score' = score + Len(wordData.wordChars)
        /\ callbacks' = <<>>
        /\ IF externalIsReverse = <<>> THEN decideNextMode ELSE UNCHANGED hookVars
        /\ LET made == WordWeightCalls(TRUE)
                       \o (IF externalIsReverse = <<>> THEN <<CallDecideNextMode>> ELSE <<>>)
           IN IF WordIsReverse(isReverse') # WordIsReverse(isReverse)
              THEN resetGame(WordIsReverse(isReverse'), made)
              ELSE /\ isChecking' = TRUE
                   /\ bottomBarState' = "correct"
                   /\ calls' = made
                   /\ UNCHANGED <<wordData, placedTiles>>
     \/ /\ Len(placedTiles) # 0
        /\ ~WordIsCorrect
        /\ score' = IF score - 1 >= 0 THEN score - 1 ELSE score
        /\ IF externalIsReverse = <<>> THEN recordWrongAnswer ELSE UNCHANGED hookVars
        /\ isChecking' = TRUE
        /\ bottomBarState' = "wrong"
        /\ callbacks' = <<CallOnWrong>>
        /\ calls' = WordWeightCalls(FALSE)
                    \o (IF externalIsReverse = <<>> THEN <<CallRecordWrongAnswer>> ELSE <<>>)
        /\ UNCHANGED <<wordData, placedTiles>>
  /\ UNCHANGED <<propVars, difficultyVars, pickVars, historyVars>>

\* faulty handleContinue: the orientation is decided when the user continues
handleContinueDeciding ==
  /\ decideNextMode
  /\ callbacks' = <<CallOnCorrect(wordData.wordChars)>>
  /\ resetGame(WordIsReverse(isReverse'), <<CallDecideNextMode>>)
  /\ UNCHANGED <<propVars, difficultyVars, score, pickVars, historyVars>>

\* handleContinue()
handleContinue ==
  /\ callbacks' = <<CallOnCorrect(wordData.wordChars)>>
  /\ resetGame(WordIsReverse(isReverse), <<>>)
  /\ UNCHANGED <<propVars, hookVars, difficultyVars, score, pickVars, historyVars>>

\* faulty handleTryAgain: a new word is generated
handleTryAgainNewWord ==
  /\ callbacks' = <<>>
  /\ resetGame(WordIsReverse(isReverse), <<>>)
  /\ UNCHANGED <<propVars, hookVars, difficultyVars, score, pickVars, historyVars>>

\* faulty handleTryAgain: isChecking is not reset
handleTryAgainStillChecking ==
  /\ placedTiles' = <<>>
  /\ bottomBarState' = "check"
  /\ calls' = <<>>
  /\ callbacks' = <<>>
  /\ UNCHANGED <<propVars, hookVars, difficultyVars, score, pickVars, historyVars, wordData,
                 isChecking>>

\* handleTryAgain()
handleTryAgain ==
  /\ placedTiles' = <<>>
  /\ isChecking' = FALSE
  /\ bottomBarState' = "check"
  /\ calls' = <<>>
  /\ callbacks' = <<>>
  /\ UNCHANGED <<propVars, hookVars, difficultyVars, score, pickVars, historyVars, wordData>>

\* faulty handleTileClick: taking a tile back counts against its character
handleTileClickCounting(char) ==
  /\ IF isChecking
     THEN UNCHANGED placedTiles /\ calls' = <<>>
     ELSE IF char \in Range(placedTiles)
     THEN /\ placedTiles' = SelectSeq(placedTiles, LAMBDA c : c # char)
          /\ calls' = <<CallUpdateWeight(char, FALSE)>>
     ELSE /\ placedTiles' = Append(placedTiles, char)
          /\ calls' = <<>>
  /\ callbacks' = <<>>
  /\ UNCHANGED <<propVars, hookVars, difficultyVars, score, pickVars, historyVars,
                 wordData, isChecking, bottomBarState>>

\* the placed tiles after a click on the tile char: placedTiles.includes(char)
\* ? prev.filter(c => c !== char) : [...prev, char]
ToggleTile(placed, char) ==
  IF char \in Range(placed)
  THEN SelectSeq(placed, LAMBDA c : c # char)
  ELSE Append(placed, char)

\* faulty handleTileClick: isChecking is not looked at
handleTileClickUnguarded(char) ==
  /\ placedTiles' = ToggleTile(placedTiles, char)
  /\ calls' = <<>>
  /\ callbacks' = <<>>
  /\ UNCHANGED <<propVars, hookVars, difficultyVars, score, pickVars, historyVars,
                 wordData, isChecking, bottomBarState>>

\* handleTileClick(char)
handleTileClick(char) ==
  /\ IF isChecking
     THEN UNCHANGED placedTiles
     ELSE placedTiles' = ToggleTile(placedTiles, char)
  /\ calls' = <<>>
  /\ callbacks' = <<>>
  /\ UNCHANGED <<propVars, hookVars, difficultyVars, score, pickVars, historyVars,
                 wordData, isChecking, bottomBarState>>

\* handleClearPlaced()
handleClearPlaced ==
  /\ IF isChecking THEN UNCHANGED placedTiles ELSE placedTiles' = <<>>
  /\ calls' = <<>>
  /\ callbacks' = <<>>
  /\ UNCHANGED <<propVars, hookVars, difficultyVars, score, pickVars, historyVars,
                 wordData, isChecking, bottomBarState>>

\* the component renders the game (it returns null otherwise)
WordRendered ==
  ~(Len(selectedKana) < wordLength \/ Len(wordData.wordChars) = 0)

\* the state of a component that is not mounted
NoPickGame ==
  /\ optionCount = 0
  /\ correctStreak = 0
  /\ wrongCount = 0
  /\ correctKanaChar = EmptyChar
  /\ correctRomajiCharReverse = EmptyChar
  /\ correctKanaCharReverse = Undefined
  /\ shuffledVariants = EmptyBag
  /\ wrongSelectedAnswers = {}
  /\ sinceFresh = NoAnswers
  /\ correctRun = 0
  /\ trail = <<>>

\* WordBuildingGame after it has mounted: the useState initialiser has
\* generated a word and the mount effect has called resetGame()
WordMounted(groups, external, length) ==
  /\ game = "word"
  /\ kanaGroupIndices = groups
  /\ externalIsReverse = external
  /\ wordLength = length
  /\ isReverse = FALSE
  /\ consecutiveCorrect = 0
  /\ score = 0
  /\ \E first \in generateWord(WordIsReverse(isReverse)) :
       \E g \in generateWord(WordIsReverse(isReverse)) :
         /\ wordData = g.wordData
         /\ calls = first.calls \o g.calls
  /\ placedTiles = <<>>
  /\ isChecking = FALSE
  /\ bottomBarState = "check"
  /\ NoPickGame
  /\ callbacks = <<>>
  /\ event = "mount"

\* faulty action button: it dispatches to handleCheck whatever the bar shows
WordCheckAnyBar(maxRun, maxPoints) ==
  /\ game = "word"
  /\ WordRendered
  /\ WordIsCorrect => /\ consecutiveCorrect < maxRun
                      /\ score + Len(wordData.wordChars) <= maxPoints
  /\ handleCheck
  /\ SelectorStep
  /\ event' = "check"

\* the user presses the action button (or its keyboard shortcut) while it
\* shows "check"
WordCheck(maxRun, maxPoints) ==
  /\ game = "word"
  /\ WordRendered
  /\ bottomBarState = "check"
  /\ WordIsCorrect => /\ consecutiveCorrect < maxRun
                      /\ score + Len(wordData.wordChars) <= maxPoints
  /\ handleCheck
  /\ SelectorStep
  /\ event' = "check"

\* the user presses the action button while it shows "continue"
WordContinue ==
  /\ game = "word"
  /\ WordRendered
  /\ bottomBarState = "correct"
  /\ handleContinue
  /\ SelectorStep
  /\ event' = "continue"

\* the user presses the action button while it shows "try again"
WordTryAgain ==
  /\ game = "word"
  /\ WordRendered
  /\ bottomBarState # "correct"
  /\ bottomBarState = "wrong"
  /\ handleTryAgain
  /\ SelectorStep
  /\ event' = "tryAgain"

\* the user clicks a tile that is enabled
WordTileClick ==
  /\ game = "word"
  /\ WordRendered
  /\ ~isChecking
  /\ \E char \in BagToSet(wordData.allTiles) : handleTileClick(char)
  /\ SelectorStep
  /\ event' = "tile"

\* the user presses the clear button, shown while the bar shows "check"
WordClear ==
  /\ game = "word"
  /\ WordRendered
  /\ bottomBarState = "check"
  /\ handleClearPlaced
  /\ SelectorStep
  /\ event' = "clear"

(***************************************************************************)
(* Spec: either game, with short runs of correct answers.                  *)
(***************************************************************************)
\* the group selections Spec starts PickGame from
GameSelections == {<<>>, <<1, 2, 3>>}
\* the group selections and word lengths Spec starts WordBuildingGame from
WordSelections == {<<1>>, <<2, 3>>, <<1, 2, 3>>}
WordLengths == {2, 3}

Init ==
  /\ StoreUntracked
  /\ \/ \E groups \in GameSelections : PickMounted(groups)
     \/ \E groups \in WordSelections, external \in {<<>>, <<TRUE>>, <<FALSE>>},
           length \in WordLengths :
          WordMounted(groups, external, length)

Next ==
  \/ PickAnswerCorrect(MaxRun, MaxPoints)
  \/ PickAnswerWrong
  \/ WordCheck(MaxRun, MaxPoints)
  \/ WordContinue
  \/ WordTryAgain
  \/ WordTileClick
  \/ WordClear

Spec == Init /\ [][Next]_vars

(***************************************************************************)
(* SpecSelector: either game with a pool of two characters, with the       *)
(* adaptive selector's entries observed.                                   *)
(***************************************************************************)
\* longest run of correct answers and largest score explored in SpecSelector
MaxSelectorRun == 3
MaxSelectorPoints == 6

\* the group selections SpecSelector starts the games from
SelectorSelections == {<<1>>}

\* the props SpecSelector starts WordBuildingGame with
SelectorProps ==
  {[isReverse |-> <<>>, wordLength |-> 2],
   [isReverse |-> <<TRUE>>, wordLength |-> 2],
   [isReverse |-> <<TRUE>>, wordLength |-> 1]}

InitSelector ==
  /\ \/ \E groups \in SelectorSelections : PickMounted(groups)
     \/ \E groups \in SelectorSelections, props \in SelectorProps :
          WordMounted(groups, props.isReverse, props.wordLength)
  /\ StoreTracked

NextSelector ==
  \/ PickAnswerCorrect(MaxSelectorRun, MaxSelectorPoints)
  \/ PickAnswerWrong
  \/ WordCheck(MaxSelectorRun, MaxSelectorPoints)
  \/ WordContinue
  \/ WordTryAgain
  \/ WordTileClick
  \/ WordClear

SpecSelector == InitSelector /\ [][NextSelector]_vars

(***************************************************************************)
(* SpecTiles: WordBuildingGame with pools in which two kana share a        *)
(* romanisation, where a click on a tile reaches handleTileClick also      *)
(* while the tile is shown disabled (isDisabled = isChecking).             *)
(***************************************************************************)
\* longest run of correct answers and largest score explored in SpecTiles
MaxTilesRun == 2
MaxTilesPoints == 4

\* the group selections SpecTiles starts WordBuildingGame from
TilesSelections == {<<1>>, <<2, 3>>, <<1, 2, 3>>}

\* the user clicks a rendered tile, enabled or disabled
WordTileClickAny ==
  /\ game = "word"
  /\ WordRendered
  /\ \E char \in BagToSet(wordData.allTiles) : handleTileClick(char)
  /\ SelectorStep
  /\ event' = "tile"

InitTiles ==
  /\ StoreUntracked
  /\ \E groups \in TilesSelections, external \in {<<>>, <<TRUE>>} :
       WordMounted(groups, external, 2)

NextTiles ==
  \/ WordCheck(MaxTilesRun, MaxTilesPoints)
  \/ WordContinue
  \/ WordTryAgain
  \/ WordTileClickAny
  \/ WordClear

SpecTiles == InitTiles /\ [][NextTiles]_vars

(***************************************************************************)
(* Steps that grade an answer, told by what they leave in the state.       *)
(***************************************************************************)
\* PickGame graded an answer correct: only a correct answer raises the score
PickGradedCorrect == game = "pick" /\ score' = score + 1

\* PickGame graded an answer wrong: only a wrong answer adds to wrongSelectedAnswers
PickGradedWrong ==
  /\ game = "pick"
  /\ wrongSelectedAnswers \subseteq wrongSelectedAnswers'
  /\ wrongSelectedAnswers' # wrongSelectedAnswers

\* WordBuildingGame graded the placed tiles correct: only that raises the score
WordGradedCorrect == game = "word" /\ bottomBarState = "check" /\ score' > score

\* WordBuildingGame graded the placed tiles wrong: the bar goes from check to wrong
WordGradedWrong == game = "word" /\ bottomBarState = "check" /\ bottomBarState' = "wrong"

\* the character PickGame asks for in the current orientation
PickTarget == IF isReverse THEN correctRomajiCharReverse ELSE correctKanaChar

(***************************************************************************)
(* Properties.                                                             *)
(***************************************************************************)
\* C1: with PickGame's options (minOptions 3, maxOptions 6, streakPerLevel 5,
\* wrongsToDecrease 2), after every sequence of recordCorrect()/recordWrong()
\* calls from the initial state, 3 <= optionCount <= 6.
C1_OptionCountWithinLimits ==
  game = "pick" => 3 <= optionCount /\ optionCount <= 6

\* a run of twenty correct answers: the fourth level-up is refused at the maximum
C1_Witness == game = "pick" /\ optionCount = 6 /\ correctStreak >= 20

\* C2: a wrong answer, graded by PickGame.handleWrongAnswer or by
\* WordBuildingGame.handleCheck, leaves isReverse as it was and leaves
\* consecutiveCorrect at 0.
C2_WrongAnswerKeepsOrientation ==
  [][(PickGradedWrong \/ WordGradedWrong)
       => /\ isReverse' = isReverse
          /\ externalIsReverse' = externalIsReverse
          /\ consecutiveCorrect' = 0]_vars

\* PickGame in reverse orientation after a wrong answer that ended a streak
C2_Witness ==
  /\ game = "pick"
  /\ isReverse
  /\ wrongSelectedAnswers # {}
  /\ consecutiveCorrect = 0
  /\ score > 0
  /\ CallRecordWrongAnswer \in Range(calls)

\* C3: in PickGame and in WordBuildingGame with its own reverse mode, isReverse
\* changes only in a step that grades an answer correct and calls
\* decideNextMode(); wrong answers, tile clicks, Clear, Try Again and Continue
\* leave it unchanged.
C3_OrientationChangesOnlyOnCorrect ==
  [][(externalIsReverse = <<>> /\ isReverse' # isReverse)
       => /\ PickGradedCorrect \/ WordGradedCorrect
          /\ CallDecideNextMode \in Range(calls')]_vars

\* WordBuildingGame with its own reverse mode, in reverse orientation, with a
\* correct word waiting for Continue
C3_Witness ==
  /\ game = "word"
  /\ externalIsReverse = <<>>
  /\ isReverse
  /\ bottomBarState = "correct"
  /\ consecutiveCorrect >= 2

C5_WrongAnswerKeepsQuestion ==
  [][/\ PickGradedWrong
          => /\ correctKanaChar' = correctKanaChar
             /\ correctRomajiCharReverse' = correctRomajiCharReverse
     /\ WordGradedWrong => wordData' = wordData
     /\ (game = "word" /\ bottomBarState = "wrong")
          => /\ wordData' = wordData
             /\ placedTiles' = <<>>
             /\ bottomBarState' = "check"]_vars

\* WordBuildingGame after a wrong check of a two-character word, Try Again next
C5_Witness ==
  /\ game = "word"
  /\ wordLength = 2
  /\ bottomBarState = "wrong"
  /\ isChecking
  /\ Len(placedTiles) = 2
  /\ ~WordIsCorrect

\* C6: with streakPerLevel 5, from the fresh state (optionCount 3, counters 0)
\* optionCount is still 3 after each of the first four consecutive correct
\* answers and is 4 after the fifth.
C6_FiveCorrectsGainOneLevel ==
  /\ (sinceFresh.wrongs = 0 /\ sinceFresh.corrects \in 1..4) => optionCount = 3
  /\ sinceFresh = [corrects |-> 5, wrongs |-> 0] => optionCount = 3 + 1

\* five correct answers were given from the fresh state
C6_Witness == sinceFresh = [corrects |-> 5, wrongs |-> 0] /\ correctStreak = 5

\* C7, as stated: from every reachable difficulty state, two consecutive wrong
\* answers decrease optionCount by exactly 1 and leave wrongCount at 0.
C7_AsStated ==
  (Len(trail) = 2 /\ ~trail[1].correct /\ ~trail[2].correct)
    => /\ optionCount = trail[1].optionCount - 1
       /\ wrongCount = 0

\* C7, amended: from every reachable difficulty state, two consecutive wrong
\* answers decrease optionCount by exactly 1, or leave it at minOptions (3)
\* when it is there already, and leave wrongCount at the value it had before
\* the two answers (0 when it was 0).
C7_TwoWrongsLoseOneLevel ==
  (Len(trail) = 2 /\ ~trail[1].correct /\ ~trail[2].correct)
    => /\ optionCount = Max(3, trail[1].optionCount - 1)
       /\ wrongCount = trail[1].wrongCount

\* two wrong answers in a row, the first given at five options with one wrong
\* answer already counted
C7_Witness ==
  /\ Len(trail) = 2
  /\ ~trail[1].correct
  /\ ~trail[2].correct
  /\ trail[1].optionCount = 5
  /\ trail[1].wrongCount = 1
  /\ optionCount = 4

\* C8: with the pool of five characters and PickGame's options, optionCount is
\* 3 at the start, 4 after five correct picks in a row, still 4 after the next
\* wrong pick and 3 after the wrong pick that follows it.
C8_Scenario ==
  /\ Len(selectedKana) = 5
  /\ sinceFresh = NoAnswers => optionCount = 3
  /\ sinceFresh = [corrects |-> 5, wrongs |-> 0] => optionCount = 4
  /\ sinceFresh = [corrects |-> 5, wrongs |-> 1] => optionCount = 4
  /\ sinceFresh = [corrects |-> 5, wrongs |-> 2] => optionCount = 3

\* the end of the scenario: five correct picks, then two wrong picks
C8_Witness ==
  /\ selectedKana = <<"A", "I", "U", "E", "O">>
  /\ sinceFresh = [corrects |-> 5, wrongs |-> 2]
  /\ score = 3

\* C9: from the fresh state, 5 * k consecutive correct answers leave
\* optionCount = min(6, 3 + k) and correctStreak = 5 * k: the streak is not
\* reset when a level is gained.
C9_StreakAccumulates ==
  (sinceFresh.wrongs = 0 /\ sinceFresh.corrects % 5 = 0)
    => /\ optionCount = Min(6, 3 + (sinceFresh.corrects \div 5))
       /\ correctStreak = sinceFresh.corrects

\* twenty correct answers from the fresh state: k = 4, beyond the maximum
C9_Witness == sinceFresh = [corrects |-> 20, wrongs |-> 0] /\ optionCount = 6

\* C10: a correct answer sets wrongCount to 0 and a wrong answer sets
\* correctStreak to 0; optionCount decreases only with the second of two
\* consecutive wrong answers and increases only with a correct answer that
\* ends a run of at least five.
C10_CountersResetEachOther ==
  [][/\ PickGradedCorrect => wrongCount' = 0
     /\ PickGradedWrong => correctStreak' = 0
     /\ optionCount' < optionCount
          => /\ Len(trail') = 2
             /\ ~trail'[1].correct
             /\ ~trail'[2].correct
     /\ optionCount' > optionCount => correctRun' >= 5]_vars

\* alternating answers above the minimum: wrong, then correct, and the count
\* of wrong answers is back at 0
C10_Witness ==
  /\ Len(trail) = 2
  /\ ~trail[1].correct
  /\ trail[2].correct
  /\ trail[2].wrongCount = 1
  /\ optionCount = 4
  /\ wrongCount = 0

\* the weight of a character before and after the step
WeightOf(char) == weightStore.entries[char].weight
WeightAfter(char) == weightStore'.entries[char].weight

\* the step called updateCharacterWeight(char, wasCorrect)
Updated(char, wasCorrect) == CallUpdateWeight(char, wasCorrect) \in Range(calls')

\* C11: every weight stays within [floor, ceiling] and the floor is positive;
\* updateCharacterWeight(c, true) strictly decreases the weight of c unless it
\* is at the floor, updateCharacterWeight(c, false) strictly increases it
\* unless it is at the ceiling, and no other weight moves.
C11_WeightsBoundedAndMonotonic ==
  /\ [](/\ FloorWeight > 0
        /\ \A c \in Characters :
             FloorWeight <= WeightOf(c) /\ WeightOf(c) <= CeilingWeight)
  /\ [][\A c \in Characters :
          /\ Updated(c, TRUE)
               => IF WeightOf(c) = FloorWeight
                  THEN WeightAfter(c) = FloorWeight
                  ELSE WeightAfter(c) < WeightOf(c)
          /\ Updated(c, FALSE)
               => IF WeightOf(c) = CeilingWeight
                  THEN WeightAfter(c) = CeilingWeight
                  ELSE WeightAfter(c) > WeightOf(c)
          /\ (~Updated(c, TRUE) /\ ~Updated(c, FALSE))
               => WeightAfter(c) = WeightOf(c)]_vars

\* WordBuildingGame after three correct words in a row: a character of the
\* word just graded was at the floor already and is still there
C11_Witness ==
  /\ game = "word"
  /\ weightStore.tracked
  /\ consecutiveCorrect = 3
  /\ \E c \in Characters :
       /\ CallUpdateWeight(c, TRUE) \in Range(calls)
       /\ weightStore.entries[c].weight = FloorWeight

\* C12: selectWeightedCharacter(pool, exclude) returns one element of pool,
\* which is not exclude when pool holds another character, and changes no
\* weight and no seen bit.  The character returned is the one the caller marks
\* seen next and takes as its new target.
C12_SelectReturnsEligibleAndKeepsStore ==
  [][/\ \A i \in 1..Len(calls') :
          calls'[i][1] = "selectWeightedCharacter"
            => /\ i < Len(calls')
               /\ calls'[i + 1][1] = "markCharacterSeen"
               /\ calls'[i + 1][2] \in Range(calls'[i][2])
               /\ Range(calls'[i][2]) \ {calls'[i][3]} # {}
                    => calls'[i + 1][2] # calls'[i][3]
     /\ (PickGradedCorrect /\ ~isReverse)
          => /\ correctKanaChar' \in Range(selectedKana)
             /\ Range(selectedKana) # {correctKanaChar}
                  => correctKanaChar' # correctKanaChar
     /\ (PickGradedCorrect /\ isReverse)
          => /\ correctRomajiCharReverse' \in Range(selectedRomaji)
             /\ Range(selectedRomaji) # {correctRomajiCharReverse}
                  => correctRomajiCharReverse' # correctRomajiCharReverse
     /\ \A c \in Characters :
          /\ weightStore'.entries[c].seen # weightStore.entries[c].seen
               => CallMarkSeen(c) \in Range(calls')
          /\ WeightAfter(c) # WeightOf(c)
               => Updated(c, TRUE) \/ Updated(c, FALSE)]_vars

\* PickGame after a correct answer: the next target was drawn with the
\* answered character excluded
C12_Witness ==
  /\ game = "pick"
  /\ weightStore.tracked
  /\ event = "option"
  /\ ~isReverse
  /\ \E c \in Range(selectedKana) :
       /\ CallSelect(selectedKana, c) \in Range(calls)
       /\ CallMarkSeen(correctKanaChar) \in Range(calls)
       /\ c # correctKanaChar

\* C13: no reachable state of either game has selected from an empty pool.
\* PickGame with an empty selection has the empty target, has made no call
\* and offers no option; WordBuildingGame with a pool shorter than wordLength
\* has the empty word, and a word is never longer than wordLength nor holds
\* a failed draw.
C13_NoSelectionFromEmptyPool ==
  /\ \A i \in 1..Len(calls) :
       calls[i][1] = "selectWeightedCharacter" => calls[i][2] # <<>>
  /\ InvalidArgument \notin {correctKanaChar, correctRomajiCharReverse}
  /\ InvalidArgument \notin Range(wordData.wordChars)
  /\ (game = "pick" /\ selectedKana = <<>>)
       => /\ correctKanaChar = EmptyChar
          /\ correctRomajiCharReverse = EmptyChar
          /\ PickClickable = {}
          /\ calls = <<>>
  /\ game = "word"
       => /\ Len(wordData.wordChars) <= wordLength
          /\ Len(selectedKana) < wordLength => wordData = EmptyWord

\* WordBuildingGame asked for two characters from the pool [ji, ji]: after
\* the first draw no candidate remains and the word has one character
C13_Witness ==
  /\ game = "word"
  /\ selectedRomaji = <<"ji", "ji">>
  /\ externalIsReverse = <<TRUE>>
  /\ wordLength = 2
  /\ wordData.wordChars = <<"ji">>

\* the characters whose seen bit is set, before and after the step
SeenChars == {c \in Characters : weightStore.entries[c].seen}
SeenAfter == {c \in Characters : weightStore'.entries[c].seen}

\* the reverse-mode state and the difficulty state of a component just mounted
HooksAsMounted ==
  /\ isReverse = FALSE
  /\ consecutiveCorrect = 0
  /\ game = "pick" => Difficulty = FreshDifficulty(PickDifficultyConfig)

\* C14, as stated: a round that was started (a target selected) and not
\* answered has left the selector's entries, weight and seen, the difficulty
\* state and the reverse-mode state as they were before the round.
C14_AsStated ==
  (weightStore.tracked /\ event = "mount")
    => /\ weightStore.entries = FreshEntries
       /\ HooksAsMounted

\* C14, amended: starting a round without answering it leaves every weight,
\* the difficulty state and the reverse-mode state as they were; it sets the
\* seen bit of the characters selected, and of no other.  The rounds started
\* without an answer are those of the mount (PickGame's initialisers,
\* WordBuildingGame's initialiser and first resetGame) and of Continue.
C14_RoundStartOnlyMarksSeen ==
  /\ []((weightStore.tracked /\ event = "mount")
          => /\ \A c \in Characters : WeightOf(c) = DefaultWeight
             /\ SeenChars = {c \in Characters : CallMarkSeen(c) \in Range(calls)}
             /\ game = "pick" /\ selectedKana # <<>>
                  => SeenChars = {correctKanaChar, correctRomajiCharReverse}
             /\ game = "word" => Range(wordData.wordChars) \subseteq SeenChars
             /\ HooksAsMounted)
  /\ [][(weightStore.tracked /\ event' = "continue")
          => /\ \A c \in Characters : WeightAfter(c) = WeightOf(c)
             /\ SeenAfter = SeenChars \cup Range(wordData'.wordChars)
             /\ UNCHANGED <<hookVars, difficultyVars>>]_vars

\* WordBuildingGame with one-character words after Continue: both romaji have
\* been selected; one is at the floor weight, the other at the default weight
C14_Witness ==
  /\ game = "word"
  /\ weightStore.tracked
  /\ event = "continue"
  /\ wordLength = 1
  /\ SeenChars = {"a", "i"}
  /\ \E c \in SeenChars : weightStore.entries[c].weight = DefaultWeight
  /\ \E c \in SeenChars : weightStore.entries[c].weight = FloorWeight

\* C15: in WordBuildingGame, placing a tile, removing a tile, clearing the
\* tiles and pressing Check with no tile placed leave every weight, the
\* reverse-mode state, the score and the bottom bar unchanged; a weight, the
\* reverse-mode state or the score changes only in a Check with at least one
\* tile placed.
C15_PartialAnswersRecordNothing ==
  [][game = "word"
       => /\ (event' \in {"tile", "clear"} \/ (event' = "check" /\ placedTiles = <<>>))
               => /\ weightStore' = weightStore
                  /\ UNCHANGED <<hookVars, score, bottomBarState>>
          /\ (\/ \E c \in Characters : WeightAfter(c) # WeightOf(c)
              \/ hookVars' # hookVars
              \/ score' # score)
               => event' = "check" /\ placedTiles # <<>>]_vars

\* WordBuildingGame after points were scored: Check was pressed with no tile
\* placed and nothing was recorded
C15_Witness ==
  /\ game = "word"
  /\ weightStore.tracked
  /\ event = "check"
  /\ placedTiles = <<>>
  /\ bottomBarState = "check"
  /\ calls = <<>>
  /\ score > 0

\* the option that answers the question shown by PickGame
PickCorrectOption == IF isReverse THEN correctKanaCharReverse ELSE correctRomajiChar

\* C16: the answer set PickGame shows for a question is the correct answer
\* plus exactly optionCount - 1 distractors, none equal to the correct answer:
\* exactly optionCount options are shown and the correct answer appears
\* exactly once.
C16_AsStated ==
  (game = "pick" /\ Len(selectedKana) > 0)
    => /\ BagCardinality(shuffledVariants) = optionCount
       /\ CopiesIn(PickCorrectOption, shuffledVariants) = 1

\* the character was presented in this session
Seen(char) == weightStore.entries[char].seen

\* C17: markCharacterSeen is idempotent and touches only the seen bit: on a
\* character already seen it changes nothing, twice is the same as once, and
\* no weight changes; and both games call it for every character they select
\* as a target, so every target shown is marked seen.
C17_MarkSeenIdempotentAndTargetsSeen ==
  /\ \A c \in Characters :
       LET entries == weightStore.entries
           once == markCharacterSeen(entries, c)
       IN /\ once[c].seen
          /\ markCharacterSeen(once, c) = once
          /\ entries[c].seen => once = entries
          /\ \A d \in Characters :
               /\ once[d].weight = entries[d].weight
               /\ d # c => once[d] = entries[d]
  /\ (game = "pick" /\ Len(selectedKana) > 0)
       => Seen(correctKanaChar) /\ Seen(correctRomajiCharReverse)
  /\ game = "word" => \A c \in Range(wordData.wordChars) : Seen(c)
  /\ \A i \in 1..Len(calls) :
       calls[i][1] = "selectWeightedCharacter"
         => /\ i < Len(calls)
            /\ calls[i + 1][1] = "markCharacterSeen"
            /\ calls[i + 1][2] \in Range(calls[i][2])

\* a word was generated by Continue from characters that were already seen
\* and whose weight had been lowered: they are marked seen again and keep
\* their weight
C17_Witness ==
  /\ game = "word"
  /\ weightStore.tracked
  /\ event = "continue"
  /\ Len(wordData.wordChars) = 2
  /\ \A c \in Range(wordData.wordChars) :
       /\ \E i \in 1..Len(calls) : calls[i] = CallMarkSeen(c)
       /\ weightStore.entries[c].weight = FloorWeight

\* the characters a word is drawn from in the orientation rev
WordSource(rev) == IF rev THEN selectedRomaji ELSE selectedKana

\* C18: when WordBuildingGame is given an isReverse prop, the word shown is
\* always in the orientation of the prop, and no check, correct or wrong,
\* calls decideNextMode or recordWrongAnswer or changes the reverse-mode
\* state; when the prop is absent the word is in the orientation of the
\* internal smart reverse mode, which is told of every graded check.
C18_PropDecidesOrientation ==
  /\ [](game = "word"
          => Range(wordData.wordChars) \subseteq
               Range(WordSource(IF externalIsReverse = <<>> THEN isReverse
                                ELSE externalIsReverse[1])))
  /\ [][game = "word"
          => IF externalIsReverse # <<>>
             THEN /\ \A i \in 1..Len(calls') :
                       calls'[i] \notin {CallDecideNextMode, CallRecordWrongAnswer}
                  /\ UNCHANGED hookVars
             ELSE /\ WordGradedCorrect
                       => \E i \in 1..Len(calls') : calls'[i] = CallDecideNextMode
                  /\ WordGradedWrong
                       => \E i \in 1..Len(calls') : calls'[i] = CallRecordWrongAnswer]_vars

\* WordBuildingGame with isReverse = true as a prop, while the internal mode
\* is not reverse: a word drawn from the romaji was graded correct
C18_Witness ==
  /\ game = "word"
  /\ externalIsReverse = <<TRUE>>
  /\ ~isReverse
  /\ bottomBarState = "correct"
  /\ event = "check"
  /\ wordData.wordChars # <<>>
  /\ Range(wordData.wordChars) \subseteq Range(selectedRomaji)
  /\ \E i \in 1..Len(calls) : calls[i][1] = "updateCharacterWeight"

\* the calls that record the outcome of an answer
GradingCalls ==
  {CallDecideNextMode, CallRecordWrongAnswer}
    \cup {CallUpdateWeight(c, ok) : c \in Characters, ok \in BOOLEAN}

\* C19: in WordBuildingGame, once handleCheck has graded an answer and the
\* bottom bar shows its feedback, no step grades again: until the bar is back
\* to 'check' no weight is updated, the score and the reverse-mode state keep
\* their values and no reverse-mode call is made; the only steps possible
\* are Continue and Try Again, and they return the bar to 'check'.
C19_NoGradingWhileFeedbackShown ==
  [][(game = "word" /\ bottomBarState # "check")
       => /\ \A i \in 1..Len(calls') : calls'[i] \notin GradingCalls
          /\ UNCHANGED <<score, hookVars>>
          /\ event' \in {"continue", "tryAgain"}
          /\ bottomBarState' = "check"]_vars

\* an answer was graded wrong after points had been scored, and Try Again
\* returned the bar to 'check' without recording anything
C19_Witness ==
  /\ game = "word"
  /\ event = "tryAgain"
  /\ bottomBarState = "check"
  /\ ~isChecking
  /\ calls = <<>>
  /\ score > 0

\* C20: in WordBuildingGame, after an answer is graded correct the same word
\* stays displayed with the bottom bar in 'correct' until the user presses
\* Continue; the word is replaced only by Continue.
C20_AsStated ==
  [][game = "word"
       => /\ WordGradedCorrect
               => wordData' = wordData /\ bottomBarState' = "correct"
          /\ bottomBarState = "correct"
               => (wordData' = wordData \/ event' = "continue")
          /\ wordData' # wordData
               => event' = "continue" /\ bottomBarState = "correct"]_vars

\* the step invoked onCorrect with the word on display
NotifiedCorrect == CallOnCorrect(wordData.wordChars) \in Range(callbacks')

\* C21: onCorrect is invoked exactly once for every word graded correct, with
\* that word's wordChars, and never for a word that was not graded correct;
\* onWrong is invoked exactly once per wrong check.  In steps: an onCorrect
\* invocation is for the word on display while the bar shows 'correct', and
\* a step makes at most one; a word graded correct stays on display with the
\* bar in 'correct' until a step invokes onCorrect for it; a step invokes
\* onWrong, once, exactly when it grades an answer wrong.
C21_AsStated ==
  [][game = "word"
       => /\ \A i \in 1..Len(callbacks') :
               callbacks'[i][1] = "onCorrect"
                 => /\ bottomBarState = "correct"
                    /\ callbacks'[i] = CallOnCorrect(wordData.wordChars)
                    /\ \A j \in 1..Len(callbacks') :
                         callbacks'[j][1] = "onCorrect" => j = i
          /\ WordGradedCorrect
               => \/ wordData' = wordData /\ bottomBarState' = "correct"
                  \/ NotifiedCorrect
          /\ (bottomBarState = "correct"
                /\ (wordData' # wordData \/ bottomBarState' # "correct"))
               => NotifiedCorrect
          /\ WordGradedWrong <=> callbacks' = <<CallOnWrong>>]_vars

\* the elements of the sequence s, as a bag
BagOfSeq(s) == BagOfPositions(s, 1..Len(s))

\* C22: generateWord, for a pool of at least wordLength characters, returns
\* wordLength pairwise distinct target characters of the source pool, with
\* answerChars[i] the counterpart of wordChars[i], and min(3, poolSize -
\* wordLength) pairwise distinct distractors, none of them in answerChars;
\* allTiles holds the answers and the distractors; for a smaller pool it
\* returns empty lists and the component renders nothing.
C22_AsStated ==
  game = "word"
    => LET rev == WordIsReverse(isReverse)
           source == WordSource(rev)
           counterparts == WordSource(~rev)
           answers == BagOfSeq(wordData.answerChars)
           distractors == wordData.allTiles (-) answers
       IN IF Len(source) >= wordLength
          THEN /\ Len(wordData.wordChars) = wordLength
               /\ \A i, j \in 1..Len(wordData.wordChars) :
                    i # j => wordData.wordChars[i] # wordData.wordChars[j]
               /\ Range(wordData.wordChars) \subseteq Range(source)
               /\ Len(wordData.answerChars) = Len(wordData.wordChars)
               /\ \A i \in 1..Len(wordData.wordChars) :
                    \E k \in 1..Len(source) :
                      /\ source[k] = wordData.wordChars[i]
                      /\ counterparts[k] = wordData.answerChars[i]
               /\ answers \sqsubseteq wordData.allTiles
               /\ BagCardinality(distractors) = Min(3, Len(source) - wordLength)
               /\ \A d \in BagToSet(distractors) :
                    /\ CopiesIn(d, distractors) = 1
                    /\ d \notin Range(wordData.answerChars)
          ELSE /\ wordData = EmptyWord
               /\ ~WordRendered

RECURSIVE PlacementsWithin(_, _, _)
\* the placements reached from those of `placed` by up to n tile clicks
PlacementsWithin(placed, tiles, n) ==
  IF n = 0 THEN placed
  ELSE PlacementsWithin(placed \cup {ToggleTile(p, c) : p \in placed, c \in tiles},
                        tiles, n - 1)

\* the placements tile clicks can reach from no tile placed: a click never
\* places a tile twice, so no placement is longer than the number of tiles
\* and each is reached by that many clicks or fewer
Placements ==
  LET tiles == BagToSet(wordData.allTiles)
  IN PlacementsWithin({<<>>}, tiles, Cardinality(tiles))

\* C23: every word WordBuildingGame generates is answerable: from the 'check'
\* state with no tile placed, some sequence of tile clicks gives a placement
\* that handleCheck grades correct, also when two kana of the pool share a
\* romaji and answerChars holds the same string twice.
C23_AsStated ==
  (game = "word" /\ WordRendered /\ bottomBarState = "check" /\ placedTiles = <<>>)
    => \E placed \in Placements : IsCorrectPlacement(placed)

\* C24: in WordBuildingGame isChecking is true exactly when the bottom bar
\* shows 'correct' or 'wrong', in every state reached by tile clicks, Clear,
\* Check, Try Again, Continue and word regenerations.
C24_CheckingIffFeedbackShown ==
  game = "word" => (isChecking <=> bottomBarState # "check")

\* Try Again after a wrong check that followed a correct word: the bar is
\* back to 'check' and isChecking is false again
C24_Witness ==
  /\ game = "word"
  /\ event = "tryAgain"
  /\ bottomBarState = "check"
  /\ ~isChecking
  /\ score > 0
  /\ consecutiveCorrect = 0

\* C25: while WordBuildingGame shows feedback (isChecking), the placed tiles
\* are frozen: a tile click or Clear changes nothing, and placedTiles changes
\* only by Try Again or Continue; outside feedback a tile click toggles the
\* tile clicked (appended if absent, removed if present); placedTiles never
\* holds the same tile twice.
C25_TilesFrozenWhileChecking ==
  /\ [](game = "word"
          => \A i, j \in 1..Len(placedTiles) :
               i # j => placedTiles[i] # placedTiles[j])
  /\ [][game = "word"
          => /\ (isChecking /\ event' \in {"tile", "clear"})
                  => UNCHANGED <<wordVars, score, hookVars>>
             /\ (isChecking /\ placedTiles' # placedTiles)
                  => event' \in {"tryAgain", "continue"}
             /\ (~isChecking /\ event' = "tile")
                  => \E c \in BagToSet(wordData.allTiles) :
                       IF \E i \in 1..Len(placedTiles) : placedTiles[i] = c
                       THEN /\ Len(placedTiles') = Len(placedTiles) - 1
                            /\ c \notin Range(placedTiles')
                            /\ placedTiles' = SelectSeq(placedTiles, LAMBDA t : t # c)
                       ELSE /\ Len(placedTiles') = Len(placedTiles) + 1
                            /\ placedTiles'[Len(placedTiles')] = c
                            /\ SubSeq(placedTiles', 1, Len(placedTiles)) = placedTiles]_vars

\* a tile was clicked while the wrong answer's feedback is shown: the placed
\* tiles are those that were submitted
C25_Witness ==
  /\ game = "word"
  /\ isChecking
  /\ bottomBarState = "wrong"
  /\ event = "tile"
  /\ Len(placedTiles) = 2
  /\ ~WordIsCorrect

\* C26: in PickGame, once the effects of a render have run, the correct
\* answer for the current target is among the displayed options and is not
\* disabled (not in wrongSelectedAnswers), after any sequence of right and
\* wrong answers, option-count changes and orientation flips: some option
\* that can be clicked answers the question.
C26_CorrectOptionAvailable ==
  (game = "pick" /\ Len(selectedKana) > 0)
    => /\ PickCorrectOption \in BagToSet(shuffledVariants)
       /\ PickCorrectOption \notin wrongSelectedAnswers
       /\ PickIsCorrect(PickCorrectOption)
       /\ \A c \in wrongSelectedAnswers : ~PickIsCorrect(c)
       /\ \E c \in PickClickable : PickIsCorrect(c)

\* reverse orientation at four options, after a wrong answer: the wrong
\* option is disabled and the correct one can be clicked
C26_Witness ==
  /\ game = "pick"
  /\ isReverse
  /\ optionCount = 4
  /\ wrongSelectedAnswers # {}
  /\ PickCorrectOption \in PickClickable
  /\ score > 0

\* the kana/romaji pairs the question shown is about, for the orientation
\* rev and the two targets
AskedPairs(rev, kanaChar, romajiCharReverse) ==
  IF rev
  THEN {<<k, romajiCharReverse>> : k \in RenderKanaCharReverse(romajiCharReverse)}
  ELSE {<<kanaChar, ObjectGet(selectedPairs, kanaChar)>>}

\* C27: in PickGame with a pool of at least two characters, the question
\* shown after a correct answer is never about the kana/romaji pair of the
\* question just answered, also when the correct answer flips the
\* orientation.
C27_AsStated ==
  [][(PickGradedCorrect /\ Len(selectedKana) >= 2)
       => AskedPairs(isReverse', correctKanaChar', correctRomajiCharReverse')
            \cap AskedPairs(isReverse, correctKanaChar, correctRomajiCharReverse) = {}]_vars

\* the step made an updateCharacterWeight(_, wasCorrect) call: it graded an
\* answer as wasCorrect
Graded(wasCorrect) ==
  \E i \in 1..Len(calls') :
    calls'[i][1] = "updateCharacterWeight" /\ calls'[i][3] = wasCorrect

\* C28: the score is never negative in either game; a wrong answer lowers it
\* by exactly 1 when it is positive and leaves it at 0 otherwise, a correct
\* PickGame answer raises it by 1, a correct WordBuildingGame answer raises
\* it by the number of characters of the word, and no other step changes it.
C28_ScoreNeverNegative ==
  /\ [](score >= 0)
  /\ [][/\ Graded(FALSE) => score' = (IF score > 0 THEN score - 1 ELSE 0)
        /\ (Graded(TRUE) /\ game = "pick") => score' = score + 1
        /\ (Graded(TRUE) /\ game = "word") => score' = score + Len(wordData.wordChars)
        /\ (~Graded(TRUE) /\ ~Graded(FALSE)) => score' = score]_vars

\* a wrong check in WordBuildingGame at score 0: the score stays 0
C28_Witness ==
  /\ game = "word"
  /\ event = "check"
  /\ bottomBarState = "wrong"
  /\ score = 0
  /\ calls # <<>>

====
